---- MODULE Spec2Model ----
(***************************************************************************)
(* State-machine model of param_fitting/param_constraints.py: the script   *)
(* that prepares the experimental tables, builds one initial state vector  *)
(* per experimental setup and sweeps the sum-of-squares objective over a   *)
(* two-parameter grid.                                                     *)
(*                                                                         *)
(* Numbers: every floating point quantity is an integer in a fixed unit    *)
(* (growth rates in 0.1/h, nutrient qualities in 0.01, concentrations in   *)
(* uM / nM) or, where the code divides, a reduced fraction <<num, den>>.   *)
(* Arrays keep the source's 0-based indices: a vector is a function on     *)
(* 0..len-1; Python lists that are appended to are sequences.              *)
(***************************************************************************)
EXTENDS Integers, Sequences, FiniteSets, TLC

VARIABLES
    pc,               \* position of the script
    cpu_count,        \* multiprocessing.cpu_count() of the host
    xla_flags,        \* device count held by os.environ["XLA_FLAGS"], 0 = not set
    jax_imported,     \* the numeric backend's package has been imported
    x64,              \* jax_enable_x64
    backend_devices,  \* devices of the initialised backend, 0 = not initialised
    dataset,          \* raw measurement table (rows of columns 0..3)
    error_dataset,    \* raw error table (rows of columns 0..5)
    setups,           \* jnp array of (s, h) pairs, <<>> before it is built
    exp_measurements, \* jnp array of (l, phi_r) pairs
    unscaled_errors,  \* jnp array of the retained rows' (l, phi_r) errors
    replicates,       \* jnp array of the retained rows' replicate counts
    exp_errors,       \* jnp array of the error scales used by the objective
    x0_default,       \* default state vector
    x0s,              \* one initial state vector per setup
    parvec_default,   \* baseline candidate vector (log space)
    i,                \* outer loop index of the sweep
    j,                \* inner loop index of the sweep
    loglikes,         \* the result surface
    writes,           \* history: how many times each cell was assigned
    pickle_file,      \* content of fit_outcomes/param_constraints.pkl
    dumps,            \* history: number of pickle.dump calls
    call,             \* state of one pmapped integrator call
    traj,             \* per batch member: the integration loop's state
    result            \* what the integrator call returned

bootVars  == <<cpu_count, xla_flags, jax_imported, x64, backend_devices>>
dataVars  == <<dataset, error_dataset, setups, exp_measurements,
               unscaled_errors, replicates, exp_errors>>
x0Vars    == <<x0_default, x0s>>
sweepVars == <<parvec_default, i, j, loglikes, writes, pickle_file, dumps>>
integVars == <<call, traj, result>>
vars == <<pc, bootVars, dataVars, x0Vars, sweepVars, integVars>>

----------------------------------------------------------------------------
(* Bounds of the model *)

MaxCores == 2       \* hosts have 1..MaxCores cores
MaxRows == 31       \* raw tables have 1..MaxRows rows
X0Len == 10         \* length of the state vector
MaxSetups == 2      \* retained setups when the sweep and the integrator run
LenK == 2           \* points on the K axis (stands for the 51 of the source)
LenKcm == 3         \* points on the kcm axis (stands for the 51 of the source)
Ticks == 2          \* time points between t0 and t1 that a trajectory can stop at
StepWrap == 2       \* the step counter is kept modulo StepWrap

(* Program constants *)

CutoffGrowthrate == 3   \* cutoff_growthrate = 0.3, in 0.1/h
BlockSize == 5          \* rows per nutrient quality: par_xs[int(i / 5)]
UnitFactor == 1000      \* uM -> nM
SIndex == 7             \* x0s.at[:, 7]
HIndex == 8             \* x0s.at[:, 8]
KIndex == 1             \* parvec_default.at[1]
KcmIndex == 3           \* parvec_default.at[3]
LogLo == -2             \* jnp.log(0.1), rounded
LogHi == 4              \* jnp.log(30), rounded up so that the axes are integral

----------------------------------------------------------------------------
(* Arithmetic helpers *)

Abs(x) == IF x < 0 THEN -x ELSE x

RECURSIVE GCD(_, _)
GCD(a, b) == IF b = 0 THEN a ELSE GCD(b, a % b)

\* the fraction n/d, reduced, with a positive denominator
Rat(n, d) ==
    LET g == GCD(Abs(n), Abs(d))
        s == IF d < 0 THEN -1 ELSE 1
    IN  <<(s * n) \div g, (s * d) \div g>>

RatAdd(p, q) ==
    LET l == (p[2] * q[2]) \div GCD(p[2], q[2])
    IN  Rat(p[1] * (l \div p[2]) + q[1] * (l \div q[2]), l)

RatMul(p, q) == Rat(p[1] * q[1], p[2] * q[2])

\* (x / e)^2 for an integer x and a fraction e
SquaredRatio(x, e) == Rat(x * x * e[2] * e[2], e[1] * e[1])

RECURSIVE SumSeq(_)
SumSeq(s) == IF s = <<>> THEN 0 ELSE Head(s) + SumSeq(Tail(s))

\* column c (0-based) of a table given as a sequence of rows
Column(table, c) == [r \in 1..Len(table) |-> table[r][c + 1]]

\* ndarray.mean() of a column
Mean(col) == Rat(SumSeq(col), Len(col))

----------------------------------------------------------------------------
(* Inputs: the two CSV files.  A raw table has n rows; every row has the   *)
(* growth rate `base` except row a, which has `ga`; the other columns      *)
(* follow the row number.                                                  *)

GrowthValues == {CutoffGrowthrate - 1, CutoffGrowthrate, CutoffGrowthrate + 1}

DataRow(r, growth) == <<growth, 0, 1 + (r % 3), r % 3>>

ErrorRow(r, rep) ==
    <<1 + (r % 2), 0, 1 + ((r \div 2) % 2), 0, rep + (r % 3), rep>>

RawDataset(n, base, a, ga) ==
    [r \in 1..n |-> DataRow(r - 1, IF r - 1 = a THEN ga ELSE base)]

RawErrors(n, rep) == [r \in 1..n |-> ErrorRow(r - 1, rep)]

\* default state vectors that x0_from_init_conds can return
DefaultVectors ==
    { [idx \in 0..(X0Len - 1) |-> 100 + idx], [idx \in 0..(X0Len - 1) |-> 7] }

----------------------------------------------------------------------------
(* Start-up: module level statements and the first lines of main()         *)

\* line 10: os.environ["XLA_FLAGS"] = "...device_count={cpu_count}"
SetXlaFlags ==
    /\ pc = "start"
    /\ xla_flags' = cpu_count
    /\ pc' = "package_imports"
    /\ UNCHANGED <<cpu_count, jax_imported, x64, backend_devices>>
    /\ UNCHANGED <<dataVars, x0Vars, sweepVars, integVars>>

\* lines 12-24: import numpy, jax, diffrax, ...
ImportPackages ==
    /\ pc = "package_imports"
    /\ jax_imported' = TRUE
    /\ pc' = "circuit_imports"
    /\ UNCHANGED <<cpu_count, xla_flags, x64, backend_devices>>
    /\ UNCHANGED <<dataVars, x0Vars, sweepVars, integVars>>

\* lines 28-34: import the cell model, the circuit module and the fitting
\* helpers; they define functions and classes and run no numeric operation
ImportCircuit ==
    /\ pc = "circuit_imports"
    /\ pc' = "main"
    /\ UNCHANGED <<bootVars, dataVars, x0Vars, sweepVars, integVars>>

\* a variant of ConfigJax that selects the platform and leaves the precision
ConfigJaxPlatformOnly ==
    /\ pc = "main"
    /\ pc' = "init_model"
    /\ UNCHANGED <<bootVars, dataVars, x0Vars, sweepVars, integVars>>

\* lines 104-105: jax.config.update(...)
ConfigJax ==
    /\ pc = "main"
    /\ x64' = TRUE
    /\ pc' = "init_model"
    /\ UNCHANGED <<cpu_count, xla_flags, jax_imported, backend_devices>>
    /\ UNCHANGED <<dataVars, x0Vars, sweepVars, integVars>>

\* the backend reads XLA_FLAGS when it is initialised, at its first use
DevicesOf(flags) == IF flags = 0 THEN 1 ELSE flags

\* lines 109-118: default parameters, initial conditions, circuit; the first
\* numeric operations of the run
InitCellModel ==
    /\ pc = "init_model"
    /\ backend_devices' = DevicesOf(xla_flags)
    /\ pc' = "load_data"
    /\ UNCHANGED <<cpu_count, xla_flags, jax_imported, x64>>
    /\ UNCHANGED <<dataVars, x0Vars, sweepVars, integVars>>

----------------------------------------------------------------------------
(* Experimental data: lines 121-158                                        *)

\* par_xs = np.logspace(np.log10(0.08), np.log10(0.5), 6), in 0.01
ParXs == <<8, 12, 17, 24, 35, 50>>

\* a variant of Retained that also keeps the rows at the cutoff
RetainedInclusive(ds, r) == ds[r + 1][1] >= CutoffGrowthrate

\* the if of lines 129 and 149
Retained(ds, r) == ds[r + 1][1] > CutoffGrowthrate

\* par_xs[int(i / 5)] raises IndexError past the last nutrient quality
ParXIndexError(r) == (r \div BlockSize) >= Len(ParXs)

\* the loop of lines 128-139 raises at the first retained row it cannot map
SetupLoopRaises(ds) ==
    \E r \in 0..(Len(ds) - 1) : Retained(ds, r) /\ ParXIndexError(r)

\* read_setups after the loop has run over rows r..
RECURSIVE ReadSetups(_, _)
ReadSetups(ds, r) ==
    IF r >= Len(ds) THEN <<>>
    ELSE IF Retained(ds, r)
         THEN <<<<ParXs[(r \div BlockSize) + 1], ds[r + 1][4] * UnitFactor>>>>
              \o ReadSetups(ds, r + 1)
         ELSE ReadSetups(ds, r + 1)

\* read_measurements after the loop has run over rows r..
RECURSIVE ReadMeasurements(_, _)
ReadMeasurements(ds, r) ==
    IF r >= Len(ds) THEN <<>>
    ELSE IF Retained(ds, r)
         THEN <<<<ds[r + 1][1], ds[r + 1][3]>>>> \o ReadMeasurements(ds, r + 1)
         ELSE ReadMeasurements(ds, r + 1)

\* read_unscaled_errors after the loop of lines 148-153 has run over rows r..
RECURSIVE ReadUnscaledErrors(_, _, _)
ReadUnscaledErrors(ds, eds, r) ==
    IF r >= Len(ds) THEN <<>>
    ELSE IF Retained(ds, r)
         THEN <<<<eds[r + 1][1], eds[r + 1][3]>>>>
              \o ReadUnscaledErrors(ds, eds, r + 1)
         ELSE ReadUnscaledErrors(ds, eds, r + 1)

\* read_replicates after the loop of lines 148-153 has run over rows r..
RECURSIVE ReadReplicates(_, _, _)
ReadReplicates(ds, eds, r) ==
    IF r >= Len(ds) THEN <<>>
    ELSE IF Retained(ds, r)
         THEN <<<<eds[r + 1][5], eds[r + 1][6]>>>>
              \o ReadReplicates(ds, eds, r + 1)
         ELSE ReadReplicates(ds, eds, r + 1)

\* lines 121-141
LoadData ==
    /\ pc = "load_data"
    /\ IF SetupLoopRaises(dataset)
       THEN /\ pc' = "crashed"
            /\ UNCHANGED <<setups, exp_measurements>>
       ELSE /\ setups' = ReadSetups(dataset, 0)
            /\ exp_measurements' = ReadMeasurements(dataset, 0)
            /\ pc' = "load_errors"
    /\ UNCHANGED <<dataset, error_dataset, unscaled_errors, replicates, exp_errors>>
    /\ UNCHANGED <<bootVars, x0Vars, sweepVars, integVars>>

\* a variant of ExpErrors that averages the retained rows only
ExpErrorsOfRetained(unscaled, eds) ==
    [k \in 1..Len(unscaled) |->
        <<RatMul(<<1, 1>>, Mean(Column(unscaled, 0))),
          RatMul(<<1, 1>>, Mean(Column(unscaled, 1)))>>]

\* line 158: jnp.ones(unscaled_errors.shape) * [[mean of col 0, mean of col 2]]
ExpErrors(unscaled, eds) ==
    [k \in 1..Len(unscaled) |->
        <<RatMul(<<1, 1>>, Mean(Column(eds, 0))),
          RatMul(<<1, 1>>, Mean(Column(eds, 2)))>>]

\* with no retained row unscaled_errors has shape (0,), which does not
\* broadcast against the (1, 2) row of means
BroadcastRaises(unscaled) == Len(unscaled) = 0

\* lines 143-158
LoadErrors ==
    /\ pc = "load_errors"
    /\ unscaled_errors' = ReadUnscaledErrors(dataset, error_dataset, 0)
    /\ replicates' = ReadReplicates(dataset, error_dataset, 0)
    /\ IF BroadcastRaises(unscaled_errors')
       THEN /\ pc' = "crashed"
            /\ UNCHANGED exp_errors
       ELSE /\ exp_errors' = ExpErrors(unscaled_errors', error_dataset)
            /\ pc' = "x0_default"
    /\ UNCHANGED <<dataset, error_dataset, setups, exp_measurements>>
    /\ UNCHANGED <<bootVars, x0Vars, sweepVars, integVars>>

----------------------------------------------------------------------------
(* Initial state vectors: lines 162-165                                    *)

\* line 162: x0_default = cellmodel_auxil.x0_from_init_conds(...)
GetX0Default ==
    /\ pc = "x0_default"
    /\ \E v \in DefaultVectors : x0_default' = v
    /\ pc' = "construct_x0s"
    /\ UNCHANGED x0s
    /\ UNCHANGED <<bootVars, dataVars, sweepVars, integVars>>

\* line 163: jnp.multiply(np.ones((N, len(x0_default))), x0_default)
X0sUnswapped(n, x0d) ==
    [k \in 1..n |-> [idx \in 0..(X0Len - 1) |-> 1 * x0d[idx]]]

\* arr.at[:, col].set(vals): a new array, arr itself is not changed
AtColumnSet(arr, col, vals) ==
    [k \in 1..Len(arr) |-> [arr[k] EXCEPT ![col] = vals[k]]]

\* a variant of X0s that writes the inducer one slot further
X0sShifted(x0d, stp) ==
    AtColumnSet(AtColumnSet(X0sUnswapped(Len(stp), x0d), SIndex, Column(stp, 0)),
                HIndex + 1, Column(stp, 1))

\* lines 163-165
X0s(x0d, stp) ==
    AtColumnSet(AtColumnSet(X0sUnswapped(Len(stp), x0d), SIndex, Column(stp, 0)),
                HIndex, Column(stp, 1))

\* lines 163-165
ConstructX0s ==
    /\ pc = "construct_x0s"
    /\ x0s' = X0s(x0_default, setups)
    /\ pc' = "prepared"
    /\ UNCHANGED x0_default
    /\ UNCHANGED <<bootVars, dataVars, sweepVars, integVars>>

----------------------------------------------------------------------------
(* The run from process start to the prepared tables                       *)

InitLoad ==
    /\ pc = "start"
    /\ cpu_count \in 1..MaxCores
    /\ xla_flags \in {0, MaxCores + 1}
    /\ jax_imported = FALSE
    /\ x64 = FALSE
    /\ backend_devices = 0
    /\ \E n \in 1..MaxRows, base \in GrowthValues \ {CutoffGrowthrate - 1},
          ga \in GrowthValues :
          \E a \in 0..(n - 1), rep \in 2..3 :
             /\ dataset = RawDataset(n, base, a, ga)
             /\ error_dataset = RawErrors(n, rep)
    /\ setups = <<>>
    /\ exp_measurements = <<>>
    /\ unscaled_errors = <<>>
    /\ replicates = <<>>
    /\ exp_errors = <<>>
    /\ x0_default = <<>>
    /\ x0s = <<>>
    /\ parvec_default = <<>>
    /\ i = 0
    /\ j = 0
    /\ loglikes = <<>>
    /\ writes = <<>>
    /\ pickle_file = <<>>
    /\ dumps = 0
    /\ call = "idle"
    /\ traj = <<>>
    /\ result = <<>>

NextLoad ==
    \/ SetXlaFlags
    \/ ImportPackages
    \/ ImportCircuit
    \/ ConfigJax
    \/ InitCellModel
    \/ LoadData
    \/ LoadErrors
    \/ GetX0Default
    \/ ConstructX0s

SpecLoad == InitLoad /\ [][NextLoad]_vars

----------------------------------------------------------------------------
(* Objective function and grid sweep: lines 167-236                        *)

\* line 207: jnp.log([a_r / a_a, K_e, nu_max, kcm]) of the default parameters
ParvecDefault == [idx \in 0..3 |-> <<1, 2, 0, 3>>[idx + 1]]

\* jnp.linspace(lo, hi, n)
Linspace(lo, hi, n) == [a \in 0..(n - 1) |-> lo + (a * (hi - lo)) \div (n - 1)]

\* line 210
K_range ==
    [a \in 0..(LenK - 1) |-> Linspace(LogLo, LogHi, LenK)[a] + ParvecDefault[KIndex]]

\* line 211
kcm_range ==
    [b \in 0..(LenKcm - 1) |->
        Linspace(LogLo, LogHi, LenKcm)[b] + ParvecDefault[KcmIndex]]

\* a variant of Candidate that overwrites entry 2 instead of entry 3
CandidateEntry2(parvec, a, b) ==
    [[parvec EXCEPT ![KIndex] = K_range[a]] EXCEPT ![KcmIndex - 1] = kcm_range[b]]

\* line 221: (parvec_default.at[1].set(K_range[i])).at[3].set(kcm_range[j])
Candidate(parvec, a, b) ==
    [[parvec EXCEPT ![KIndex] = K_range[a]] EXCEPT ![KcmIndex] = kcm_range[b]]

\* back from log space (powers of two stand for powers of e)
Exp(p) == 2 ^ p

\* the observables (l, phi_r) the model predicts for one initial state
\* vector: integration to steady state, then the closed-form extraction
Predicted(x0, parvec) ==
    <<(x0[SIndex] \div 10) + Exp(parvec[1]) + parvec[0],
      (x0[HIndex] \div UnitFactor) + Exp(parvec[3]) + parvec[2]>>

\* sum over the setups k.. and both observables of
\* ((predicted - measured) / error)^2
RECURSIVE SosFrom(_, _, _, _, _)
SosFrom(k, parvec, xs, meas, errs) ==
    IF k > Len(xs) THEN <<0, 1>>
    ELSE LET p == Predicted(xs[k], parvec)
         IN  RatAdd(RatAdd(SquaredRatio(p[1] - meas[k][1], errs[k][1]),
                           SquaredRatio(p[2] - meas[k][2], errs[k][2])),
                    SosFrom(k + 1, parvec, xs, meas, errs))

\* minus_sos_for_parvec: the objective function
MinusSosForParvec(parvec, xs, meas, errs) == SosFrom(1, parvec, xs, meas, errs)

\* jax.pmap maps at most one batch member to each device
PmapAccepts(xs, devices) == Len(xs) <= devices

\* lines 207-217: the baseline vector, the axes, loglikes = np.zeros(...)
InitSweep ==
    /\ pc = "prepared"
    /\ parvec_default' = ParvecDefault
    /\ loglikes' = [a \in 0..(LenK - 1) |-> [b \in 0..(LenKcm - 1) |-> <<0, 1>>]]
    /\ writes' = [a \in 0..(LenK - 1) |-> [b \in 0..(LenKcm - 1) |-> 0]]
    /\ i' = 0
    /\ j' = 0
    /\ pc' = "sweep"
    /\ UNCHANGED <<pickle_file, dumps>>
    /\ UNCHANGED <<bootVars, dataVars, x0Vars, integVars>>

\* a variant of StoreCell that overwrites the baseline vector in place
StoreCellInPlace(a, b) ==
    /\ parvec_default' = Candidate(parvec_default, a, b)
    /\ loglikes' = [loglikes EXCEPT ![a][b] =
                       MinusSosForParvec(parvec_default', x0s,
                                         exp_measurements, exp_errors)]
    /\ writes' = [writes EXCEPT ![a][b] = @ + 1]
    /\ UNCHANGED <<dataVars, x0Vars>>

\* line 221: loglikes[i, j] = minus_sos(candidate)
StoreCell(a, b) ==
    /\ loglikes' = [loglikes EXCEPT ![a][b] =
                       MinusSosForParvec(Candidate(parvec_default, a, b), x0s,
                                         exp_measurements, exp_errors)]
    /\ writes' = [writes EXCEPT ![a][b] = @ + 1]
    /\ UNCHANGED <<parvec_default, dataVars, x0Vars>>

\* lines 219-222: one iteration whose objective call returns
FinishCell ==
    /\ pc = "sweep"
    /\ PmapAccepts(x0s, backend_devices)
    /\ StoreCell(i, j)
    /\ IF j + 1 < LenKcm
       THEN /\ j' = j + 1
            /\ UNCHANGED <<i, pc>>
       ELSE /\ j' = 0
            /\ i' = i + 1
            /\ pc' = IF i + 1 < LenK THEN "sweep" ELSE "dump"
    /\ UNCHANGED <<pickle_file, dumps>>
    /\ UNCHANGED <<bootVars, integVars>>

\* a variant of FailCell that saves the cells computed so far
FailCellCheckpoint ==
    /\ pc = "sweep"
    /\ pc' = "crashed"
    /\ pickle_file' = loglikes
    /\ dumps' = dumps + 1
    /\ UNCHANGED <<parvec_default, i, j, loglikes, writes>>
    /\ UNCHANGED <<bootVars, dataVars, x0Vars, integVars>>

\* lines 219-221: one iteration whose objective call raises (the batch does
\* not fit the devices, or an integration fails): the exception leaves main
FailCell ==
    /\ pc = "sweep"
    /\ pc' = "crashed"
    /\ UNCHANGED sweepVars
    /\ UNCHANGED <<bootVars, dataVars, x0Vars, integVars>>

\* lines 223-226: pickle.dump(loglikes, ...)
DumpPickle ==
    /\ pc = "dump"
    /\ pickle_file' = loglikes
    /\ dumps' = dumps + 1
    /\ pc' = "plot"
    /\ UNCHANGED <<parvec_default, i, j, loglikes, writes>>
    /\ UNCHANGED <<bootVars, dataVars, x0Vars, integVars>>

\* lines 234-236: render and save the heatmap
PlotHeatmap ==
    /\ pc = "plot"
    /\ pc' = "done"
    /\ UNCHANGED <<bootVars, dataVars, x0Vars, sweepVars, integVars>>

\* the state main() is in when the tables and state vectors are prepared
Prepared(rows, bases, gas, reps, defaults) ==
    /\ pc = "prepared"
    /\ cpu_count \in 1..MaxCores
    /\ xla_flags = cpu_count
    /\ jax_imported = TRUE
    /\ x64 = TRUE
    /\ backend_devices = DevicesOf(xla_flags)
    /\ \E n \in rows, base \in bases, ga \in gas :
          \E a \in 0..(n - 1), rep \in reps :
             /\ dataset = RawDataset(n, base, a, ga)
             /\ error_dataset = RawErrors(n, rep)
    /\ ~SetupLoopRaises(dataset)
    /\ setups = ReadSetups(dataset, 0)
    /\ exp_measurements = ReadMeasurements(dataset, 0)
    /\ unscaled_errors = ReadUnscaledErrors(dataset, error_dataset, 0)
    /\ replicates = ReadReplicates(dataset, error_dataset, 0)
    /\ ~BroadcastRaises(unscaled_errors)
    /\ exp_errors = ExpErrors(unscaled_errors, error_dataset)
    /\ x0_default \in defaults
    /\ x0s = X0s(x0_default, setups)
    /\ parvec_default = <<>>
    /\ i = 0
    /\ j = 0
    /\ loglikes = <<>>
    /\ writes = <<>>
    /\ pickle_file = <<>>
    /\ dumps = 0
    /\ call = "idle"
    /\ traj = <<>>
    /\ result = <<>>

Init ==
    Prepared(1..MaxSetups, GrowthValues \ {CutoffGrowthrate - 1}, GrowthValues,
             2..3, DefaultVectors)

Next ==
    \/ InitSweep
    \/ FinishCell
    \/ FailCell
    \/ DumpPickle
    \/ PlotHeatmap

Spec == Init /\ [][Next]_vars

\* one iteration of the sweep, for any cell that has not been evaluated yet
FinishAnyCell ==
    /\ pc = "sweep"
    /\ PmapAccepts(x0s, backend_devices)
    /\ \E a \in 0..(LenK - 1), b \in 0..(LenKcm - 1) :
          /\ writes[a][b] = 0
          /\ StoreCell(a, b)
          /\ pc' = IF \A c \in 0..(LenK - 1), d \in 0..(LenKcm - 1) :
                         writes'[c][d] > 0
                   THEN "dump" ELSE "sweep"
    /\ UNCHANGED <<i, j, pickle_file, dumps>>
    /\ UNCHANGED <<bootVars, integVars>>

InitAnyOrder ==
    Prepared(1..MaxSetups, {CutoffGrowthrate + 1}, GrowthValues, {2},
             DefaultVectors)

NextAnyOrder ==
    \/ InitSweep
    \/ FinishAnyCell
    \/ FailCell
    \/ DumpPickle
    \/ PlotHeatmap

SpecAnyOrder == InitAnyOrder /\ [][NextAnyOrder]_vars

----------------------------------------------------------------------------
(* One call of pmapped_diffeqsolve_forx0s, as the objective function makes  *)
(* it for the first cell: lines 183-196.  Time runs over the points         *)
(* 0..Ticks, Ticks being t1 = 48.                                           *)

Terminated(k) == traj[k].status \in {"steady", "horizon", "failed"}

\* the terminal state vector of member k: the last state computed from x0s[k]
Terminal(k) == [x0 |-> x0s[k], t |-> traj[k].t, status |-> traj[k].status]

\* jax.pmap(diffeqsolve_forx0, in_axes=0)(x0s): one member per device, more
\* members than devices raise
PmapCall ==
    /\ pc = "sweep"
    /\ call = "idle"
    /\ IF PmapAccepts(x0s, backend_devices)
       THEN /\ call' = "running"
            /\ traj' = [k \in 1..Len(x0s) |->
                          [status |-> "running", t |-> 0, num_steps |-> 0]]
            /\ pc' = pc
       ELSE /\ call' = "raised"
            /\ traj' = traj
            /\ pc' = "crashed"
    /\ UNCHANGED result
    /\ UNCHANGED <<bootVars, dataVars, x0Vars, sweepVars>>

\* an accepted step of member k: time advances; the steady state event is
\* tested on the new state, then the horizon (t1 = 48)
AcceptStep(k) ==
    /\ call = "running"
    /\ k \in DOMAIN traj
    /\ traj[k].status = "running"
    /\ \E tnext \in (traj[k].t + 1)..Ticks, steady \in BOOLEAN :
          traj' = [traj EXCEPT ![k] =
                      [status |-> IF steady THEN "steady"
                                  ELSE IF tnext = Ticks THEN "horizon"
                                  ELSE "running",
                       t |-> tnext,
                       num_steps |-> (traj[k].num_steps + 1) % StepWrap]]
    /\ UNCHANGED <<pc, call, result>>
    /\ UNCHANGED <<bootVars, dataVars, x0Vars, sweepVars>>

\* a rejected step of member k: the controller shrinks the step (no dtmin)
\* and tries again; max_steps=None puts no bound on the number of tries
RejectStep(k) ==
    /\ call = "running"
    /\ k \in DOMAIN traj
    /\ traj[k].status = "running"
    /\ traj' = [traj EXCEPT ![k].num_steps = (@ + 1) % StepWrap]
    /\ UNCHANGED <<pc, call, result>>
    /\ UNCHANGED <<bootVars, dataVars, x0Vars, sweepVars>>

\* the solver reports that the integration of member k failed
FailStep(k) ==
    /\ call = "running"
    /\ k \in DOMAIN traj
    /\ traj[k].status = "running"
    /\ traj' = [traj EXCEPT ![k].status = "failed"]
    /\ UNCHANGED <<pc, call, result>>
    /\ UNCHANGED <<bootVars, dataVars, x0Vars, sweepVars>>

\* one iteration of the integration loop of member k
Step(k) == AcceptStep(k) \/ RejectStep(k) \/ FailStep(k)

\* a variant of ReturnBatch that returns as soon as one member has stopped
ReturnBatchEarly ==
    /\ call = "running"
    /\ \E k \in DOMAIN traj : Terminated(k)
    /\ \A k \in DOMAIN traj : traj[k].status # "failed"
    /\ call' = "returned"
    /\ result' = [k \in DOMAIN traj |-> Terminal(k)]
    /\ UNCHANGED <<pc, traj>>
    /\ UNCHANGED <<bootVars, dataVars, x0Vars, sweepVars>>

\* the call returns the terminal states once every member has stopped and
\* none has failed
ReturnBatch ==
    /\ call = "running"
    /\ \A k \in DOMAIN traj : Terminated(k) /\ traj[k].status # "failed"
    /\ call' = "returned"
    /\ result' = [k \in DOMAIN traj |-> Terminal(k)]
    /\ UNCHANGED <<pc, traj>>
    /\ UNCHANGED <<bootVars, dataVars, x0Vars, sweepVars>>

\* diffeqsolve is called without throw=False: a failed member raises, and the
\* exception is that of the whole call
RaiseBatch ==
    /\ call = "running"
    /\ \E k \in DOMAIN traj : traj[k].status = "failed"
    /\ call' = "raised"
    /\ pc' = "crashed"
    /\ UNCHANGED <<traj, result>>
    /\ UNCHANGED <<bootVars, dataVars, x0Vars, sweepVars>>

InitInteg ==
    Prepared(1..MaxSetups, {CutoffGrowthrate + 1}, {CutoffGrowthrate + 1}, {2},
             {[idx \in 0..(X0Len - 1) |-> 100 + idx]})

NextInteg ==
    \/ InitSweep
    \/ PmapCall
    \/ \E k \in 1..MaxSetups : Step(k)
    \/ ReturnBatch
    \/ RaiseBatch

\* the script keeps running, and every device runs its member's loop
SpecInteg ==
    /\ InitInteg
    /\ [][NextInteg]_vars
    /\ WF_vars(InitSweep \/ PmapCall \/ ReturnBatch \/ RaiseBatch)
    /\ \A k \in 1..MaxSetups : WF_vars(Step(k))

----------------------------------------------------------------------------
(* Properties of the start-up, the data loader and the state vector        *)
(* constructor, checked under SpecLoad                                     *)

\* positions at which the three experimental tables exist
Loaded == pc \in {"x0_default", "construct_x0s", "prepared"}

\* the rows (0-based) whose growth rate is strictly above the cutoff
AboveCutoff == {r \in 0..(Len(dataset) - 1) : dataset[r + 1][1] > CutoffGrowthrate}

\* the k-th smallest element of a set of row numbers
KthRow(R, k) == CHOOSE r \in R : Cardinality({q \in R : q < r}) = k - 1

\* the tables hold exactly the rows above the cutoff, in the original order
TablesMatchRows ==
    /\ Len(setups) = Cardinality(AboveCutoff)
    /\ Len(exp_measurements) = Cardinality(AboveCutoff)
    /\ Len(exp_errors) = Cardinality(AboveCutoff)
    /\ Cardinality(AboveCutoff) <= Len(dataset)
    /\ \A k \in 1..Len(setups) :
          LET r == KthRow(AboveCutoff, k)
          IN  /\ exp_measurements[k] = <<dataset[r + 1][1], dataset[r + 1][3]>>
              /\ setups[k][2] = dataset[r + 1][4] * 1000
              /\ setups[k][1] = ParXs[(r \div 5) + 1]

\* the raw datasets the loader can map: some row is above the cutoff and
\* every such row belongs to one of the six nutrient qualities
Loadable == AboveCutoff # {} /\ \A r \in AboveCutoff : r < 30

\* C2 as stated: for every raw dataset the loader produces the three tables
\* and they hold exactly the rows whose growth rate is strictly above the
\* cutoff, in the original order.
C2_EveryDatasetLoads ==
    /\ pc # "crashed"
    /\ Loaded => TablesMatchRows

\* C2 amended: for every raw dataset with at least one row above the cutoff
\* and no row above the cutoff at index 30 or later, the loader finishes and
\* the tables hold exactly the rows strictly above the cutoff, in order, one
\* row each in the setup, measurement and error tables.
C2_LoadableDatasetLoads ==
    /\ Loadable => pc # "crashed"
    /\ pc = "crashed" => ~Loadable
    /\ Loaded => (Loadable /\ TablesMatchRows)

\* C2 witness: a loaded dataset whose first row is exactly at the cutoff and
\* was filtered out while later rows were retained.
C2_Witness ==
    /\ pc = "prepared"
    /\ dataset[1][1] = CutoffGrowthrate
    /\ Len(setups) >= 2
    /\ Len(setups) < Len(dataset)

C1_ConstructorFrame ==
    [][(pc = "construct_x0s" /\ pc' = "prepared") =>
         /\ x0_default' = x0_default
         /\ Len(x0s') = Len(setups)
         /\ \A k \in 1..Len(setups) :
               /\ DOMAIN x0s'[k] = DOMAIN x0_default
               /\ \A idx \in DOMAIN x0_default :
                     x0s'[k][idx] = IF idx = 7 THEN setups[k][1]
                                    ELSE IF idx = 8 THEN setups[k][2]
                                    ELSE x0_default[idx]]_vars

\* C1 witness: two rows were built, they differ, and the default vector is
\* none of them.
C1_Witness ==
    /\ pc = "prepared"
    /\ Len(x0s) >= 2
    /\ x0s[1] # x0s[2]
    /\ x0s[1] # x0_default
    /\ x0s[1][0] = x0_default[0]

----------------------------------------------------------------------------
(* Properties of the grid sweep, checked under Spec and SpecAnyOrder       *)

Cells == (0..(LenK - 1)) \X (0..(LenKcm - 1))

\* cell c comes before cell d in the order of the nested loops
Before(c, d) == c[1] < d[1] \/ (c[1] = d[1] /\ c[2] < d[2])

\* the objective at the baseline with entry 1 and entry 3 replaced
ObjectiveAt(a, b) ==
    MinusSosForParvec([idx \in 0..3 |-> IF idx = 1 THEN K_range[a]
                                        ELSE IF idx = 3 THEN kcm_range[b]
                                        ELSE ParvecDefault[idx]],
                      x0s, exp_measurements, exp_errors)

\* C3: the surface always has LenK rows of LenKcm cells, and once the sweep
\* has completed every cell holds the objective at the baseline with entry 1
\* set to K_range[a] and entry 3 set to kcm_range[b], and was written once.
C3_SurfaceIsObjectiveOnGrid ==
    /\ pc # "prepared" =>
          /\ DOMAIN loglikes = 0..(LenK - 1)
          /\ \A a \in DOMAIN loglikes : DOMAIN loglikes[a] = 0..(LenKcm - 1)
    /\ pc \in {"dump", "plot", "done"} =>
          \A c \in Cells :
             /\ loglikes[c[1]][c[2]] = ObjectiveAt(c[1], c[2])
             /\ writes[c[1]][c[2]] = 1

\* C3 witness: a completed sweep over two setups whose surface is not
\* symmetric.
C3_Witness ==
    /\ pc = "done"
    /\ Len(x0s) = 2
    /\ loglikes[0][1] # loglikes[1][0]
    /\ loglikes[0][0] # <<0, 1>>

\* C8: the surface is dumped at most once, only when every cell has been
\* written, and a finished run has dumped it; a run that failed in a cell has
\* evaluated neither that cell nor any later one and has written nothing.
C8_DumpOnlyAfterFullSweep ==
    /\ dumps <= 1
    /\ dumps = 0 => pickle_file = <<>>
    /\ dumps = 1 =>
          /\ pickle_file = loglikes
          /\ \A c \in Cells : writes[c[1]][c[2]] = 1
    /\ pc = "done" => dumps = 1
    /\ pc = "crashed" =>
          /\ dumps = 0
          /\ \A c \in Cells :
                (c = <<i, j>> \/ Before(<<i, j>>, c)) => writes[c[1]][c[2]] = 0

\* C8 witness: the objective failed in the last cell, after every other cell
\* had been stored.
C8_Witness ==
    /\ pc = "crashed"
    /\ i = LenK - 1
    /\ j = LenKcm - 1
    /\ writes[0][0] = 1
    /\ PmapAccepts(x0s, backend_devices)

\* C4: whatever the order in which the cells are evaluated, no iteration
\* changes the baseline vector, the state vectors or the tables, and the
\* completed surface is the one the nested loops produce: the objective on
\* the grid.
C4_OrderIndependent ==
    /\ [][pc = "sweep" =>
            UNCHANGED <<parvec_default, x0_default, x0s, setups,
                        exp_measurements, exp_errors>>]_vars
    /\ [](pc \in {"dump", "plot", "done"} =>
            \A c \in Cells : loglikes[c[1]][c[2]] = ObjectiveAt(c[1], c[2]))

\* C4 witness: the last cell of the loop order has been evaluated while the
\* first one has not.
C4_Witness ==
    /\ pc = "sweep"
    /\ writes[LenK - 1][LenKcm - 1] = 1
    /\ writes[0][0] = 0

----------------------------------------------------------------------------
(* Properties of the integrator call, checked under SpecInteg              *)

\* C5 as stated: a member whose integration failed is reported alone; the
\* call does not raise because of it, and what it returns for the other
\* members is their own terminal state.
C5_FailureIsIsolated ==
    \A k \in DOMAIN traj :
       traj[k].status = "failed" =>
          /\ call # "raised"
          /\ call = "returned" =>
                \A s \in DOMAIN traj \ {k} : result[s] = Terminal(s)

\* C10 as stated: whatever the number of members is relative to the number
\* of devices, the call does not raise on account of it, and it returns one
\* terminal state per member, the k-th being that of x0s[k].
C10_OneResultPerMember ==
    /\ call = "raised" => \E k \in DOMAIN traj : traj[k].status = "failed"
    /\ call = "returned" =>
          /\ DOMAIN result = 1..Len(x0s)
          /\ \A k \in DOMAIN result : result[k].x0 = x0s[k]

====
